---- MODULE Spec2Model ----
(***************************************************************************)
(* SkillDialog (botbuilder-dialogs, skills/skill_dialog.py): a dialog that *)
(* forwards the turns of a conversation to a remote skill.                 *)
(*                                                                         *)
(* One turn is processed to completion before the next one starts.  A turn *)
(* is one call of begin_dialog, continue_dialog, reprompt_dialog,          *)
(* resume_dialog or end_dialog.  Each handler runs up to the response of   *)
(* the skill in one step; when _send_to_skill has replies to process, the  *)
(* loop over them is taken one reply per step (pc = "replies") and the     *)
(* handler's return is the last step.  While pc # "idle" only the next     *)
(* step of the running handler is enabled.                                 *)
(***************************************************************************)
EXTENDS Integers, Sequences, FiniteSets, TLC

\* ---------------------------------------------------------------- bounds
\* longest batch of replies in the body of a skill response
MaxBatch == 2

\* ------------------------------------------------------------ value sets
\* Python's None
None == "None"

\* botbuilder.schema.DeliveryModes, and None for an activity without one
DeliveryModes == {None, "normal", "expectReplies"}

\* connection names an options object can carry: None, the empty string, a name
ConnectionNames == {None, "", "sso"}

\* payloads of end-of-conversation activities
Values == {"v1", "v2"}

\* statuses the skill client answers with
Statuses == {199, 200, 299, 300}

\* botbuilder.dialogs.DialogReason values the driver ends a dialog with
DialogReasons == {"EndCalled", "CancelCalled", "ReplaceCalled"}

RootConversation == "root"

OAuthCardContentType == "application/vnd.microsoft.card.oauth"
HeroCardContentType == "application/vnd.microsoft.card.hero"

\* ------------------------------------------------------------ activities
\* An attachment: its content type and the uri of
\* content.token_exchange_resource ("" when the content, the resource or
\* the uri is missing or empty).
HeroCard == [content_type |-> HeroCardContentType, uri |-> ""]
OAuthCard == [content_type |-> OAuthCardContentType, uri |-> "api://skill"]
OAuthCardNoUri == [content_type |-> OAuthCardContentType, uri |-> ""]

\* Activity.attachments is None unless the sender set it
NoneAttachments == <<[content_type |-> None, uri |-> ""]>>

AttachmentLists ==
    { NoneAttachments, <<>>, <<HeroCard>>, <<OAuthCard>>, <<OAuthCardNoUri>>,
      <<HeroCard, OAuthCard>> }

\* activities the skill puts in an expected-replies body
Replies ==
    { [type |-> "message", attachments |-> a, value |-> None] : a \in AttachmentLists }
    \cup
    { [type |-> "endOfConversation", attachments |-> NoneAttachments, value |-> v] : v \in Values }

NoActivity == [type |-> None, attachments |-> NoneAttachments, value |-> None]

RECURSIVE SeqsUpTo(_, _)
SeqsUpTo(S, n) ==
    IF n = 0 THEN { <<>> }
    ELSE LET shorter == SeqsUpTo(S, n - 1)
         IN  shorter \cup { Append(s, x) : s \in { t \in shorter : Len(t) = n - 1 }, x \in S }

\* the message with an empty list of attachments, and the end-of-conversations
PlainReplies == { r \in Replies : r.type = "endOfConversation" \/ r.attachments = <<>> }

\* bodies of a skill response: an empty body, or a batch of replies; the
\* batches of MaxBatch + 1 replies are made of plain replies only
Bodies ==
    SeqsUpTo(Replies, MaxBatch)
    \cup { b \in SeqsUpTo(PlainReplies, MaxBatch + 1) : Len(b) = MaxBatch + 1 }

\* activities of the dialog itself: inbound ones, and the ones sent to the skill
NoOutActivity ==
    [type |-> None, name |-> None, delivery_mode |-> None, value |-> None, conversation |-> None]

\* the activity of the turn in which begin, reprompt, resume or end is called
RootActivity ==
    [type |-> "message", name |-> None, delivery_mode |-> None, value |-> None,
     conversation |-> RootConversation]

\* the activities a caller passes in the begin options
OptionActivities ==
    { [type |-> "message", name |-> None, delivery_mode |-> d, value |-> None,
       conversation |-> None] : d \in DeliveryModes }

\* the inbound activities of a continue turn
InboundActivities ==
    { [type |-> "message", name |-> None, delivery_mode |-> d, value |-> None,
       conversation |-> RootConversation] : d \in DeliveryModes }
    \cup
    { [type |-> "endOfConversation", name |-> None, delivery_mode |-> None, value |-> v,
       conversation |-> RootConversation] : v \in Values }

\* the options objects begin_dialog is called with: None, an object that is
\* not convertible, options without an activity, valid options
BeginOptions ==
    { [kind |-> None, activity |-> NoOutActivity, connection_name |-> None],
      [kind |-> "object", activity |-> NoOutActivity, connection_name |-> None] }
    \cup
    { [kind |-> "BeginSkillDialogOptions", activity |-> a, connection_name |-> c]
        : a \in OptionActivities \cup {NoOutActivity}, c \in ConnectionNames }

NoArgs == [kind |-> None, activity |-> NoOutActivity, connection_name |-> None]

\* active_dialog.state before begin_dialog wrote its two keys
Unset == "Unset"
EmptyState == [deliverymode |-> Unset, sso_connection_name |-> Unset]

NoResponse == [status |-> 0, body |-> <<>>]

\* what _intercept_oauth_cards did for the reply last processed
NoInterception ==
    [called |-> FALSE, exchange |-> "not_called", invoke |-> "not_called",
     invoke_status |-> 0, handled |-> FALSE]

\* outcomes of adapter.exchange_token: it raises, returns None, returns a
\* result without a token, returns a token
ExchangeOutcomes == {"raise", None, "no_token", "token"}

\* outcomes of the follow-up post_activity: it raises, or answers with a status
InvokeOutcomes ==
    { [raises |-> TRUE, status |-> 0] } \cup { [raises |-> FALSE, status |-> s] : s \in Statuses }

\* entries of the log of calls to collaborators made in the current turn
Call(op, type, status) == [op |-> op, type |-> type, status |-> status]

VARIABLES
    adapter_is_token_provider, \* isinstance(context.adapter, ExtendedUserTokenProvider)
    frame,            \* "NotStarted", "Active", "Terminated": the dialog's frame on the stack
    state,            \* active_dialog.state: the two keys of this dialog
    dialog_args,      \* the validated options of the last begin_dialog (NoArgs if none)
    context_activity, \* context.activity of the current turn, as it was when the turn began
    caller_activity,  \* the activity object the caller handed over (the activity of the
                      \* options, context.activity), as it is after the writes of the handler
    handler,          \* the handler the driver called in the current (or last) turn
    caller,           \* the method that called _send_to_skill
    reason,           \* the reason of the current (or last) end_dialog
    pc,               \* "idle": between turns; "replies": in the loop of _send_to_skill;
                      \* "end_dialog": dialog_context.end_dialog is ending this dialog;
                      \* "done": the handler returned or raised
    skill_activity,   \* the activity handed to _send_to_skill
    connection_name,  \* the connection_name handed to _send_to_skill
    response,         \* the response of skill_client.post_activity
    replies,          \* the replies the loop iterates over
    idx,              \* position of the reply last processed (0 before the first)
    eoc_activity,     \* the end-of-conversation captured so far
    interception,     \* what _intercept_oauth_cards did for replies[idx]
    sent,             \* replies passed to context.send_activity: <<position, activity>>
    calls,            \* calls to collaborators made in this turn, in order
    raised,           \* the error the turn ended with (None if none)
    outcome,          \* what the handler returned
    result            \* the value given to dialog_context.end_dialog

vars ==
    << adapter_is_token_provider, frame, state, dialog_args, context_activity,
       caller_activity, handler, caller, reason, pc, skill_activity, connection_name, response, replies, idx, eoc_activity,
       interception, sent, calls, raised, outcome, result >>

\* ------------------------------------------------------- pure functions
\* `not x` is False for a non-empty string only
Truthy(x) == x \notin {None, ""}

\* BeginSkillDialogOptions.from_object: the options themselves when they are
\* (or convert to) BeginSkillDialogOptions, None otherwise
FromObject(options) ==
    IF options.kind = "BeginSkillDialogOptions" THEN options ELSE NoArgs

\* the activity of the options is not looked at
ValidateBeginDialogArgsAnyActivity(options) ==
    IF options.kind = None
    THEN [error |-> "TypeError", args |-> NoArgs]
    ELSE LET args == FromObject(options)
         IN  IF args = NoArgs THEN [error |-> "TypeError", args |-> NoArgs]
             ELSE [error |-> None, args |-> args]

\* _validate_begin_dialog_args: the error it raises (None if none) and the
\* options it returns
ValidateBeginDialogArgs(options) ==
    IF options.kind = None
    THEN [error |-> "TypeError", args |-> NoArgs]
    ELSE LET args == FromObject(options)
         IN  IF args = NoArgs THEN [error |-> "TypeError", args |-> NoArgs]
             ELSE IF args.activity = NoOutActivity THEN [error |-> "TypeError", args |-> NoArgs]
             ELSE [error |-> None, args |-> args]

\* Objects: the activity object of the caller, and a fresh object
OriginalObject == "original"
FreshObject == "fresh"

\* the object is used itself, not a copy of it
DeepCopyAlias(object) == object

\* copy.deepcopy: a fresh object with the fields of the given one
DeepCopy(object) == FreshObject

\* the fields of the caller's object after the handler wrote `written` into
\* the object it forwards
AfterWrites(forwarded, original, written) ==
    IF forwarded = OriginalObject THEN written ELSE original

\* TurnContext.get_conversation_reference / apply_conversation_reference
GetConversationReference(activity) == activity.conversation

ApplyConversationReference(activity, reference) ==
    [activity EXCEPT !.conversation = reference]

\* begin_dialog: the activity it forwards
BeginSkillActivity(args, turn_activity) ==
    ApplyConversationReference(args.activity, GetConversationReference(turn_activity))

\* the connection name is not stored
BeginDialogStateNoConnection(args) ==
    [deliverymode |-> args.activity.delivery_mode,
     sso_connection_name |-> None]

\* begin_dialog: the two keys it writes into active_dialog.state
BeginDialogState(args) ==
    [deliverymode |-> args.activity.delivery_mode,
     sso_connection_name |-> args.connection_name]

\* the delivery mode of the inbound activity is kept
ContinueSkillActivityAsInbound(turn_activity, dialog_state) == turn_activity

\* continue_dialog: the activity it forwards
ContinueSkillActivity(turn_activity, dialog_state) ==
    [turn_activity EXCEPT !.delivery_mode = dialog_state.deliverymode]

\* reprompt_dialog: the event it sends
RepromptEvent(turn_activity) ==
    ApplyConversationReference(
        [type |-> "event", name |-> "repromptDialog", delivery_mode |-> None,
         value |-> None, conversation |-> None],
        GetConversationReference(turn_activity))

\* the stored connection name is passed on
RepromptConnectionNameStored(dialog_state) == dialog_state.sso_connection_name

\* reprompt_dialog: the connection name it hands to _send_to_skill (none:
\* the parameter keeps its default)
RepromptConnectionName(dialog_state) == None

\* end_dialog: the end-of-conversation it sends
EndOfConversationActivity(turn_activity) ==
    ApplyConversationReference(
        [type |-> "endOfConversation", name |-> None, delivery_mode |-> None,
         value |-> None, conversation |-> None],
        GetConversationReference(turn_activity))

\* ReplaceCalled is forgotten
SendsEndOfConversationOnCancelOnly(r) == r = "CancelCalled"

\* the skill is told whatever the reason
SendsEndOfConversationAlways(r) == TRUE

\* end_dialog: the reasons for which it tells the skill
SendsEndOfConversation(r) == r \in {"CancelCalled", "ReplaceCalled"}

\* the lower bound is exclusive
SkillStatusOkAbove200(status) == 200 < status /\ status <= 299

\* the activity is posted before the state is saved
SendToSkillCallsPostFirst(activity, status) ==
    << Call("create_skill_conversation_id", activity.type, 0),
       Call("post_activity", activity.type, status),
       Call("save_changes", None, 0) >>

\* _send_to_skill: its calls up to the response, in their order
SendToSkillCalls(activity, status) ==
    << Call("create_skill_conversation_id", activity.type, 0),
       Call("save_changes", None, 0),
       Call("post_activity", activity.type, status) >>

\* no lower bound
SkillStatusOkBelow300(status) == status <= 299

\* _send_to_skill: `200 <= response.status <= 299`
SkillStatusOk(status) == 200 <= status /\ status <= 299

\* the delivery mode is not looked at
ExpectRepliesAnyMode(activity, resp) == resp.body # <<>>

\* only the delivery mode normal keeps the replies from being processed
ExpectRepliesUnlessNormal(activity, resp) ==
    activity.delivery_mode # "normal" /\ resp.body # <<>>

\* _send_to_skill: the replies of the response are processed
ExpectReplies(activity, resp) ==
    activity.delivery_mode = "expectReplies" /\ resp.body # <<>>

\* 200 is not a success
TokenExchangeInvokeSucceededAbove200(status) == status > 2 * 100

\* a status of 200 or more is a success
TokenExchangeInvokeSucceededFrom200(status) == status >= 2 * 100

\* _send_token_exchange_invoke_to_skill: `response.status / 100 == 2`.
\* `/` is the true division of Python 3: the quotient is the number 2 only
\* for a status of exactly 200 (299 / 100 is 2.99).
TokenExchangeInvokeSucceeded(status) == status = 2 * 100

\* the adapter is not looked at
CannotInterceptWithoutName(is_provider, conn) == ~Truthy(conn)

\* _intercept_oauth_cards: no connection name, or an adapter that is not an
\* ExtendedUserTokenProvider
CannotIntercept(is_provider, conn) == ~Truthy(conn) \/ ~is_provider

IsOAuthCard(attachment) == attachment.content_type = OAuthCardContentType

\* the positions of the OAuth cards among the attachments
OAuthCardPositions(attachments) ==
    { i \in DOMAIN attachments : IsOAuthCard(attachments[i]) }

\* _intercept_oauth_cards, given the outcome ex of exchange_token and the
\* outcome inv of the follow-up post_activity, should they be called:
\* the error it raises (None if none), what it returns, and what it called
InterceptOAuthCards(is_provider, activity, conn, ex, inv) ==
    LET NotHandled ==
            [error |-> None, handled |-> FALSE, exchange |-> "not_called",
             invoke |-> "not_called", invoke_status |-> 0, calls |-> <<>>]
        Exchanged ==
            [NotHandled EXCEPT !.exchange = ex,
                               !.calls = <<Call("exchange_token", None, 0)>>]
    IN  IF CannotIntercept(is_provider, conn) THEN NotHandled
        ELSE IF activity.attachments = NoneAttachments
        THEN \* iterating None
             [NotHandled EXCEPT !.error = "TypeError"]
        ELSE IF OAuthCardPositions(activity.attachments) = {}
        THEN \* next() on an exhausted generator, inside a coroutine
             [NotHandled EXCEPT !.error = "RuntimeError"]
        ELSE LET positions == OAuthCardPositions(activity.attachments)
                 first == CHOOSE i \in positions : \A j \in positions : i <= j
                 oauth_card == activity.attachments[first]
             IN  IF ~Truthy(oauth_card.uri) THEN NotHandled
                 ELSE IF ex # "token" THEN Exchanged
                 ELSE [Exchanged EXCEPT
                         !.invoke = IF inv.raises THEN "raise" ELSE "response",
                         !.invoke_status = inv.status,
                         !.calls = Append(@, Call("post_activity", "invoke", inv.status)),
                         !.handled = ~inv.raises /\ TokenExchangeInvokeSucceeded(inv.status)]

\* --------------------------------------------------------------- state
sessionVars == << frame, state, dialog_args >>
callVars ==
    << caller, skill_activity, connection_name, response, replies, idx, eoc_activity,
       interception >>

Init ==
    /\ adapter_is_token_provider \in BOOLEAN
    /\ frame = "NotStarted"
    /\ state = EmptyState
    /\ dialog_args = NoArgs
    /\ context_activity = RootActivity
    /\ caller_activity = NoOutActivity
    /\ handler = None
    /\ caller = None
    /\ reason = None
    /\ pc = "idle"
    /\ skill_activity = NoOutActivity
    /\ connection_name = None
    /\ response = NoResponse
    /\ replies = <<>>
    /\ idx = 0
    /\ eoc_activity = NoActivity
    /\ interception = NoInterception
    /\ sent = <<>>
    /\ calls = <<>>
    /\ raised = None
    /\ outcome = None
    /\ result = None

\* no call of _send_to_skill has been made in this turn
NoCall ==
    /\ caller' = None
    /\ skill_activity' = NoOutActivity
    /\ connection_name' = None
    /\ response' = NoResponse
    /\ replies' = <<>>
    /\ idx' = 0
    /\ eoc_activity' = NoActivity
    /\ interception' = NoInterception

\* the driver calls a handler: a new turn with the inbound activity a
NewTurn(h, a) ==
    /\ pc = "idle"
    /\ handler' = h
    /\ context_activity' = a
    /\ sent' = <<>>

\* _send_to_skill, called by fn after the calls in done, up to its loop:
\* the conversation id, the save, the post and the check of the status
SendToSkill(fn, activity, conn, done) ==
    \E status \in Statuses, body \in Bodies :
        LET resp == [status |-> status, body |-> body]
        IN  /\ caller' = fn
            /\ skill_activity' = activity
            /\ connection_name' = conn
            /\ calls' = done \o SendToSkillCalls(activity, status)
            /\ response' = resp
            /\ idx' = 0
            /\ eoc_activity' = NoActivity
            /\ interception' = NoInterception
            /\ IF ~SkillStatusOk(status)
               THEN /\ raised' = "Exception"
                    /\ outcome' = "raised"
                    /\ replies' = <<>>
                    /\ pc' = "done"
               ELSE /\ raised' = None
                    /\ outcome' = "pending"
                    /\ replies' = IF ExpectReplies(activity, resp) THEN resp.body ELSE <<>>
                    /\ pc' = "replies"

\* ------------------------------------------------------------- handlers
BeginDialog ==
    \E options \in BeginOptions :
        LET validated == ValidateBeginDialogArgs(options)
            args == validated.args
        IN  /\ frame \in {"NotStarted", "Terminated"}
            /\ NewTurn("begin_dialog", RootActivity)
            /\ reason' = None
            /\ result' = None
            /\ IF validated.error # None
               THEN /\ raised' = validated.error
                    /\ outcome' = "raised"
                    /\ frame' = "NotStarted"
                    /\ state' = EmptyState
                    /\ dialog_args' = NoArgs
                    /\ calls' = <<>>
                    /\ pc' = "done"
                    /\ caller_activity' = options.activity
                    /\ NoCall
               ELSE /\ frame' = "Active"
                    /\ dialog_args' = args
                    /\ state' = BeginDialogState(args)
                    /\ caller_activity' =
                           AfterWrites(DeepCopy(OriginalObject), args.activity,
                                       BeginSkillActivity(args, RootActivity))
                    /\ SendToSkill("begin_dialog",
                                   BeginSkillActivity(args, RootActivity),
                                   args.connection_name,
                                   << Call("send_trace_activity", None, 0) >>)
            /\ UNCHANGED adapter_is_token_provider

ContinueDialog ==
    \E activity \in InboundActivities :
        /\ frame = "Active"
        /\ NewTurn("continue_dialog", activity)
        /\ IF activity.type = "endOfConversation"
           THEN /\ calls' = << Call("send_trace_activity", None, 0),
                               Call("send_trace_activity", None, 0) >>
                /\ result' = activity.value
                /\ reason' = "EndCalled"
                /\ raised' = None
                /\ outcome' = "pending"
                /\ pc' = "end_dialog"
                /\ caller_activity' = activity
                /\ NoCall
           ELSE /\ reason' = None
                /\ result' = None
                /\ caller_activity' =
                       AfterWrites(DeepCopy(OriginalObject), activity,
                                   ContinueSkillActivity(activity, state))
                /\ SendToSkill("continue_dialog",
                               ContinueSkillActivity(activity, state),
                               state.sso_connection_name,
                               << Call("send_trace_activity", None, 0) >>)
        /\ UNCHANGED << adapter_is_token_provider, sessionVars >>

RepromptDialog ==
    /\ frame = "Active"
    /\ NewTurn("reprompt_dialog", RootActivity)
    /\ reason' = None
    /\ result' = None
    /\ caller_activity' = RootActivity
    /\ SendToSkill("reprompt_dialog", RepromptEvent(RootActivity),
                   RepromptConnectionName(state), <<>>)
    /\ UNCHANGED << adapter_is_token_provider, sessionVars >>

ResumeDialog ==
    /\ frame = "Active"
    /\ NewTurn("resume_dialog", RootActivity)
    /\ reason' = None
    /\ result' = None
    /\ caller_activity' = RootActivity
    /\ SendToSkill("reprompt_dialog", RepromptEvent(RootActivity),
                   RepromptConnectionName(state), <<>>)
    /\ UNCHANGED << adapter_is_token_provider, sessionVars >>

\* Dialog.end_dialog, then the driver pops the frame
Teardown(h, done) ==
    /\ calls' = Append(done, Call("base_end_dialog", None, 0))
    /\ frame' = "Terminated"
    /\ raised' = None
    /\ outcome' = IF h = "end_dialog" THEN "returned" ELSE "ended"
    /\ pc' = "done"

\* the driver ends the dialog (cancel_all_dialogs, replace_dialog, end)
EndDialog ==
    \E r \in DialogReasons :
        /\ frame = "Active"
        /\ NewTurn("end_dialog", RootActivity)
        /\ reason' = r
        /\ result' = None
        /\ caller_activity' = RootActivity
        /\ IF SendsEndOfConversation(r)
           THEN /\ SendToSkill("end_dialog", EndOfConversationActivity(RootActivity), None,
                               << Call("send_trace_activity", None, 0) >>)
                /\ frame' = frame
           ELSE /\ Teardown("end_dialog", <<>>)
                /\ NoCall
        /\ UNCHANGED << adapter_is_token_provider, state, dialog_args >>

\* dialog_context.end_dialog(result), called by begin_dialog and
\* continue_dialog: it calls end_dialog with the reason EndCalled
EndActiveDialog ==
    /\ pc = "end_dialog"
    /\ IF SendsEndOfConversation(reason)
       THEN /\ SendToSkill("end_dialog", EndOfConversationActivity(context_activity), None,
                           Append(calls, Call("send_trace_activity", None, 0)))
            /\ frame' = frame
       ELSE /\ Teardown(handler, calls)
            /\ UNCHANGED callVars
    /\ UNCHANGED << adapter_is_token_provider, state, dialog_args, context_activity,
                    caller_activity, handler, reason, sent, result >>

\* ------------------------------------------------- the loop over replies
\* one iteration of the loop of _send_to_skill
ProcessReply ==
    /\ pc = "replies"
    /\ idx < Len(replies)
    /\ LET from_skill_activity == replies[idx + 1]
       IN  /\ idx' = idx + 1
           /\ IF from_skill_activity.type = "endOfConversation"
              THEN /\ eoc_activity' = from_skill_activity
                   /\ interception' = NoInterception
                   /\ UNCHANGED << sent, calls, raised, outcome, pc >>
              ELSE \E ex \in ExchangeOutcomes, inv \in InvokeOutcomes :
                     LET r == InterceptOAuthCards(adapter_is_token_provider,
                                                  from_skill_activity, connection_name, ex, inv)
                     IN  /\ interception' =
                                [called |-> TRUE, exchange |-> r.exchange, invoke |-> r.invoke,
                                 invoke_status |-> r.invoke_status, handled |-> r.handled]
                         /\ calls' = calls \o r.calls
                         /\ eoc_activity' = eoc_activity
                         /\ IF r.error # None
                            THEN /\ raised' = r.error
                                 /\ outcome' = "raised"
                                 /\ pc' = "done"
                                 /\ sent' = sent
                            ELSE /\ sent' = IF r.handled THEN sent
                                            ELSE Append(sent, << idx + 1, from_skill_activity >>)
                                 /\ UNCHANGED << raised, outcome, pc >>
    /\ UNCHANGED << adapter_is_token_provider, sessionVars, context_activity,
                    caller_activity, handler, caller, reason, skill_activity, connection_name, response, replies, result >>

\* _send_to_skill returned eoc_activity to its caller
Returned(fn) ==
    /\ pc = "replies"
    /\ idx = Len(replies)
    /\ caller = fn

\* begin_dialog after _send_to_skill
BeginDialogReturn ==
    /\ Returned("begin_dialog")
    /\ IF eoc_activity # NoActivity
       THEN /\ result' = eoc_activity.value
            /\ reason' = "EndCalled"
            /\ pc' = "end_dialog"
            /\ outcome' = outcome
       ELSE /\ outcome' = "end_of_turn"
            /\ pc' = "done"
            /\ UNCHANGED << result, reason >>
    /\ UNCHANGED << adapter_is_token_provider, sessionVars, context_activity,
                    caller_activity, handler, callVars, sent, calls, raised >>

\* continue_dialog after _send_to_skill
ContinueDialogReturn ==
    /\ Returned("continue_dialog")
    /\ IF eoc_activity # NoActivity
       THEN /\ result' = eoc_activity.value
            /\ reason' = "EndCalled"
            /\ pc' = "end_dialog"
            /\ outcome' = outcome
       ELSE /\ outcome' = "end_of_turn"
            /\ pc' = "done"
            /\ UNCHANGED << result, reason >>
    /\ UNCHANGED << adapter_is_token_provider, sessionVars, context_activity,
                    caller_activity, handler, callVars, sent, calls, raised >>

\* reprompt_dialog after _send_to_skill; resume_dialog returns end_of_turn
RepromptDialogReturn ==
    /\ Returned("reprompt_dialog")
    /\ outcome' = IF handler = "resume_dialog" THEN "end_of_turn" ELSE "returned"
    /\ pc' = "done"
    /\ UNCHANGED << adapter_is_token_provider, sessionVars, context_activity,
                    caller_activity, handler, callVars, reason, sent, calls, raised, result >>

\* end_dialog after _send_to_skill
EndDialogReturn ==
    /\ Returned("end_dialog")
    /\ Teardown(handler, calls)
    /\ UNCHANGED << adapter_is_token_provider, state, dialog_args, context_activity,
                    caller_activity, handler, callVars, reason, sent, result >>

\* the turn is over: the driver drops the turn context and what the
\* handler returned; the frame and its state stay
EndTurn ==
    /\ pc = "done"
    /\ pc' = "idle"
    /\ context_activity' = RootActivity
    /\ caller_activity' = NoOutActivity
    /\ handler' = None
    /\ reason' = None
    /\ sent' = <<>>
    /\ calls' = <<>>
    /\ raised' = None
    /\ outcome' = None
    /\ result' = None
    /\ NoCall
    /\ UNCHANGED << adapter_is_token_provider, sessionVars >>

Next ==
    \/ BeginDialog
    \/ ContinueDialog
    \/ RepromptDialog
    \/ ResumeDialog
    \/ EndDialog
    \/ EndActiveDialog
    \/ ProcessReply
    \/ BeginDialogReturn
    \/ ContinueDialogReturn
    \/ RepromptDialogReturn
    \/ EndDialogReturn
    \/ EndTurn

Spec == Init /\ [][Next]_vars

\* =============================================================== claims

\* positions of the calls of the turn that post an activity of type t
Posts(t) == { i \in DOMAIN calls : calls[i].op = "post_activity" /\ calls[i].type = t }

\* the reply last processed went to context.send_activity, as it was
LastReplySent == sent # <<>> /\ sent[Len(sent)] = << idx, replies[idx] >>

\* the reply last processed did not go to context.send_activity
LastReplyNotSent == \A j \in DOMAIN sent : sent[j][1] # idx

\* C1: once begin_dialog accepted its options, the delivery mode stored in
\* the dialog state is the one of the activity of the options and the stored
\* connection name is the one of the options, in every later state, whatever
\* the activities of the continue turns carry.
C1_StoredAsSupplied ==
    dialog_args # NoArgs =>
        /\ state.deliverymode = dialog_args.activity.delivery_mode
        /\ state.sso_connection_name = dialog_args.connection_name

\* a continue turn whose activity carries another delivery mode than the
\* stored one has completed, for options with a connection name
C1_Witness ==
    /\ pc = "done"
    /\ handler = "continue_dialog"
    /\ outcome = "end_of_turn"
    /\ dialog_args.connection_name = "sso"
    /\ dialog_args.activity.delivery_mode = "expectReplies"
    /\ context_activity.delivery_mode = "normal"

\* C2: a begin or continue turn that forwarded with expectReplies and got a
\* batch with exactly one end-of-conversation, at position k, has sent every
\* reply before k that has no OAuth card to the user, in the order of the
\* batch, has not sent the end-of-conversation, and has ended the dialog
\* with the value of the end-of-conversation; for every connection name and
\* adapter.
C2_SingleEndOfConversation ==
    LET body == response.body
        eocs == { i \in DOMAIN body : body[i].type = "endOfConversation" }
    IN  ( /\ pc = "done"
          /\ handler \in {"begin_dialog", "continue_dialog"}
          /\ skill_activity.delivery_mode = "expectReplies"
          /\ SkillStatusOk(response.status)
          /\ Cardinality(eocs) = 1 )
        => LET k == CHOOSE i \in eocs : TRUE
           IN  /\ \A i \in 1 .. (k - 1) :
                     OAuthCardPositions(body[i].attachments) = {}
                        => \E j \in DOMAIN sent : sent[j] = << i, body[i] >>
               /\ \A a, b \in DOMAIN sent : a < b => sent[a][1] < sent[b][1]
               /\ \A j \in DOMAIN sent : sent[j][1] # k
               /\ outcome = "ended"
               /\ result = body[k].value

\* C3: a reply with exactly one OAuth card, which has a token exchange uri,
\* is not sent to the user when a connection name was given, the adapter is
\* a token provider, exchange_token returned a token and the follow-up
\* invoke was answered with status 200.
C3_ExchangedCardSuppressed ==
    ( /\ interception.called
      /\ Truthy(connection_name)
      /\ adapter_is_token_provider
      /\ Cardinality(OAuthCardPositions(replies[idx].attachments)) = 1
      /\ \A i \in OAuthCardPositions(replies[idx].attachments) :
            Truthy(replies[idx].attachments[i].uri)
      /\ interception.exchange = "token"
      /\ interception.invoke = "response"
      /\ interception.invoke_status = 200 )
    => /\ interception.handled
       /\ LastReplyNotSent
       /\ raised = None

\* a turn ended in which the only reply was such a card and was suppressed
C3_Witness ==
    /\ pc = "done"
    /\ outcome = "end_of_turn"
    /\ Len(replies) = 1
    /\ idx = 1
    /\ interception.exchange = "token"
    /\ interception.invoke_status = 200
    /\ interception.handled
    /\ sent = <<>>

\* C4: when the follow-up invoke is answered, the statuses 200 and 299 make
\* the interception report handled and keep the card from the user, and the
\* statuses 199 and 300 make it report not handled and send the card.
C4_InvokeStatusBoundary ==
    interception.invoke = "response" =>
        /\ interception.invoke_status \in {200, 299}
              => interception.handled /\ LastReplyNotSent
        /\ interception.invoke_status \in {199, 300}
              => ~interception.handled /\ LastReplySent

\* C5: the skill invocation goes on exactly when the status s of the
\* response has 200 <= s <= 299: 200 and 299 do not raise the invocation
\* error, 199 and 300 raise it, end the turn and send no reply to the user.
C5_SkillStatusBoundary ==
    response # NoResponse =>
        IF 200 <= response.status /\ response.status <= 299
        THEN /\ raised # "Exception"
             /\ raised # None => idx > 0
        ELSE /\ raised = "Exception"
             /\ outcome = "raised"
             /\ pc = "done"
             /\ idx = 0
             /\ sent = <<>>

\* a turn answered with 299 completed and sent a reply to the user
C5_Witness ==
    /\ pc = "done"
    /\ response.status = 299
    /\ outcome = "end_of_turn"
    /\ sent # <<>>

\* C6: a begin or continue turn raises only for malformed begin options or
\* for a status of the skill invocation outside 200..299.
C6_OnlyArgumentAndStatusErrors ==
    ( /\ pc = "done"
      /\ handler \in {"begin_dialog", "continue_dialog"}
      /\ raised # None )
    => \/ handler = "begin_dialog" /\ dialog_args = NoArgs
       \/ response # NoResponse /\ ~SkillStatusOk(response.status)

\* C7: with a connection name and a token provider, the interception of a
\* reply without an OAuth card returns false without calling exchange_token,
\* and the reply is sent to the user.
C7_NoCardNotHandled ==
    ( /\ interception.called
      /\ Truthy(connection_name)
      /\ adapter_is_token_provider
      /\ OAuthCardPositions(replies[idx].attachments) = {} )
    => /\ raised = None
       /\ ~interception.handled
       /\ interception.exchange = "not_called"
       /\ LastReplySent

\* C8: a reply with an OAuth card is not intercepted when the adapter is not
\* a token provider or no connection name was given: exchange_token and the
\* follow-up post are not called and the reply is sent to the user as it is.
C8_InterceptionGate ==
    ( /\ interception.called
      /\ OAuthCardPositions(replies[idx].attachments) # {}
      /\ (~adapter_is_token_provider \/ ~Truthy(connection_name)) )
    => /\ ~interception.handled
       /\ interception.exchange = "not_called"
       /\ interception.invoke = "not_called"
       /\ \A i \in DOMAIN calls : calls[i].op # "exchange_token"
       /\ Posts("invoke") = {}
       /\ raised = None
       /\ LastReplySent

\* a card with a uri was sent to the user although a connection name was
\* given, by an adapter that is not a token provider
C8_Witness ==
    /\ interception.called
    /\ ~adapter_is_token_provider
    /\ connection_name = "sso"
    /\ replies[idx].attachments = <<OAuthCard>>
    /\ LastReplySent

\* C9: end_dialog with the reason CancelCalled or ReplaceCalled posts exactly
\* one end-of-conversation to the skill, before Dialog.end_dialog; with the
\* reason EndCalled it posts nothing, also when begin_dialog or
\* continue_dialog end the dialog for an end-of-conversation of the skill.
C9_EndOfConversationOnCancel ==
    LET teardowns == { i \in DOMAIN calls : calls[i].op = "base_end_dialog" }
        posts == { i \in DOMAIN calls : calls[i].op = "post_activity" /\ calls[i].type # "invoke" }
    IN  /\ ( pc = "done" /\ handler = "end_dialog" /\ reason \in {"CancelCalled", "ReplaceCalled"} )
           => /\ Cardinality(Posts("endOfConversation")) = 1
              /\ posts = Posts("endOfConversation")
              /\ raised = None => Cardinality(teardowns) = 1
              /\ \A p \in posts, t \in teardowns : p < t
        /\ ( pc = "done" /\ handler = "end_dialog" /\ reason = "EndCalled" )
           => /\ posts = {}
              /\ Cardinality(teardowns) = 1
        /\ ( pc = "done" /\ outcome = "ended" )
           => /\ Posts("endOfConversation") = {}
              /\ Cardinality(posts) = IF caller = None THEN 0 ELSE 1
              /\ Cardinality(teardowns) = 1
              /\ \A p \in posts, t \in teardowns : p < t

\* a cancelled dialog told the skill and was torn down
C9_Witness ==
    /\ pc = "done"
    /\ handler = "end_dialog"
    /\ reason = "CancelCalled"
    /\ raised = None
    /\ frame = "Terminated"
    /\ Posts("endOfConversation") # {}

\* C10: when exchange_token raises or returns no token, or the follow-up
\* invoke raises or is answered with a status outside 200..299, the
\* interception reports not handled, the reply with the card is sent to the
\* user, and the loop goes on with the next reply.
C10_FailedInterceptionShowsCard ==
    ( /\ interception.called
      /\ \/ interception.exchange \in {"raise", None, "no_token"}
         \/ interception.invoke = "raise"
         \/ /\ interception.invoke = "response"
            /\ ~(200 <= interception.invoke_status /\ interception.invoke_status <= 299) )
    => /\ ~interception.handled
       /\ LastReplySent
       /\ raised = None
       /\ pc = "replies" \/ idx = Len(replies)

\* the exchange of the first of two cards raised, both replies were sent
C10_Witness ==
    /\ pc = "done"
    /\ Len(replies) = 2
    /\ Len(sent) = 2
    /\ \E i \in DOMAIN calls : calls[i].op = "exchange_token"
    /\ interception.exchange = "raise"
    /\ outcome = "end_of_turn"

\* C11: the activity object the caller handed to begin_dialog (the activity
\* of the options) or to continue_dialog (context.activity) has, during and
\* after the turn, also a failed one, the fields it had before: the
\* conversation reference and the delivery mode are written into the copy.
C11_OriginalActivityUnaltered ==
    /\ (handler = "begin_dialog" /\ dialog_args # NoArgs)
          => caller_activity = dialog_args.activity
    /\ handler = "continue_dialog" => caller_activity = context_activity

\* a continue turn forwarded a copy with another delivery mode than the one
\* of the inbound activity
C11_Witness ==
    /\ pc = "done"
    /\ handler = "continue_dialog"
    /\ caller = "continue_dialog"
    /\ skill_activity.delivery_mode = "expectReplies"
    /\ context_activity.delivery_mode = "normal"
    /\ caller_activity.delivery_mode = "normal"

\* C12: when the forwarded activity does not have the delivery mode
\* expectReplies, or the body of a 2xx response is empty, no reply is
\* processed or sent to the user and no end-of-conversation is captured; a
\* begin_dialog then returns end of turn and the dialog stays active.
C12_NoRepliesWithoutExpectReplies ==
    ( /\ response # NoResponse
      /\ 200 <= response.status /\ response.status <= 299
      /\ (skill_activity.delivery_mode # "expectReplies" \/ response.body = <<>>) )
    => /\ replies = <<>>
       /\ idx = 0
       /\ ~interception.called
       /\ eoc_activity = NoActivity
       /\ raised = None
       /\ (caller = handler) => sent = <<>>
       /\ (pc = "done" /\ handler \in {"begin_dialog", "continue_dialog"} /\ caller = handler)
             => outcome = "end_of_turn" /\ frame = "Active" /\ result = None

\* begin_dialog with the delivery mode normal and an empty 2xx response
\* returned end of turn
C12_Witness ==
    /\ pc = "done"
    /\ handler = "begin_dialog"
    /\ skill_activity.delivery_mode = "normal"
    /\ response.status = 200
    /\ response.body = <<>>
    /\ outcome = "end_of_turn"
    /\ frame = "Active"
    /\ sent = <<>>

\* C13: begin_dialog with options that are None, not convertible or without
\* an activity raises the argument error at once: the two keys of the dialog
\* state are not written, the conversation state is not saved and nothing is
\* posted to the skill.
C13_InvalidOptionsRaise ==
    (handler = "begin_dialog" /\ caller_activity = NoOutActivity)
    => /\ pc = "done"
       /\ raised = "TypeError"
       /\ outcome = "raised"
       /\ state = EmptyState
       /\ dialog_args = NoArgs
       /\ calls = <<>>
       /\ response = NoResponse
       /\ sent = <<>>

\* begin_dialog raised the argument error
C13_Witness ==
    /\ pc = "done"
    /\ handler = "begin_dialog"
    /\ raised = "TypeError"
    /\ caller_activity = NoOutActivity
    /\ state = EmptyState

\* C14: in every _send_to_skill the conversation state is saved right before
\* the activity is posted, and every post to the skill, the follow-up invoke
\* included, comes after a save of the same turn.
C14_SaveBeforePost ==
    \A i \in DOMAIN calls :
        calls[i].op = "post_activity" =>
            /\ \E j \in 1 .. (i - 1) : calls[j].op = "save_changes"
            /\ calls[i].type # "invoke" => (i > 1 /\ calls[i - 1].op = "save_changes")

\* a cancelled dialog whose end-of-conversation was answered with 300
C14_Witness ==
    /\ pc = "done"
    /\ handler = "end_dialog"
    /\ raised = "Exception"
    /\ response.status = 300
    /\ \E i \in DOMAIN calls : calls[i].op = "save_changes"

\* C15: the activity continue_dialog forwards has the delivery mode stored
\* by begin_dialog, whatever the inbound activity carries, and the replies
\* of the response are processed exactly when that stored mode is
\* expectReplies and the 2xx response has a body.
C15_ContinueUsesStoredDeliveryMode ==
    caller = "continue_dialog" =>
        /\ skill_activity.delivery_mode = state.deliverymode
        /\ skill_activity.delivery_mode = dialog_args.activity.delivery_mode
        /\ (200 <= response.status /\ response.status <= 299) =>
              replies = IF dialog_args.activity.delivery_mode = "expectReplies"
                        THEN response.body ELSE <<>>

\* a continue turn with an inbound activity of mode normal sent a reply to
\* the user, the dialog having begun with expectReplies
C15_Witness ==
    /\ pc = "done"
    /\ handler = "continue_dialog"
    /\ context_activity.delivery_mode = "normal"
    /\ state.deliverymode = "expectReplies"
    /\ sent # <<>>

\* C16: continue_dialog with an inbound end-of-conversation ends the dialog
\* with the value of that activity and calls neither the conversation id
\* factory, nor save_changes, nor the skill client: nothing is forwarded and
\* no end-of-conversation goes back to the skill.
C16_InboundEndOfConversation ==
    (handler = "continue_dialog" /\ context_activity.type = "endOfConversation")
    => /\ pc \in {"end_dialog", "done"}
       /\ result = context_activity.value
       /\ caller = None
       /\ response = NoResponse
       /\ \A i \in DOMAIN calls : calls[i].op \in {"send_trace_activity", "base_end_dialog"}
       /\ sent = <<>>
       /\ raised = None
       /\ pc = "done" => (frame = "Terminated" /\ outcome = "ended")

\* the dialog was ended by an inbound end-of-conversation with the value v2
C16_Witness ==
    /\ pc = "done"
    /\ handler = "continue_dialog"
    /\ context_activity.type = "endOfConversation"
    /\ result = "v2"
    /\ frame = "Terminated"

\* C17: a begin or continue turn that forwarded with expectReplies and got a
\* batch with two or more end-of-conversations has processed every reply of
\* the batch, has sent none of the end-of-conversations to the user, has
\* sent the other replies in the order of the batch unless their
\* interception succeeded, and has ended the dialog with the value of the
\* last end-of-conversation of the batch.
C17_LastEndOfConversation ==
    LET body == response.body
        eocs == { i \in DOMAIN body : body[i].type = "endOfConversation" }
    IN  ( /\ pc = "done"
          /\ handler \in {"begin_dialog", "continue_dialog"}
          /\ skill_activity.delivery_mode = "expectReplies"
          /\ SkillStatusOk(response.status)
          /\ Cardinality(eocs) >= 2 )
        => LET last == CHOOSE i \in eocs : \A j \in eocs : j <= i
           IN  /\ raised = None
               /\ idx = Len(body)
               /\ outcome = "ended"
               /\ result = body[last].value
               /\ \A j \in DOMAIN sent : sent[j][1] \notin eocs
               /\ \A a, b \in DOMAIN sent : a < b => sent[a][1] < sent[b][1]
               /\ CannotIntercept(adapter_is_token_provider, connection_name)
                     => \A i \in DOMAIN body \ eocs :
                            \E j \in DOMAIN sent : sent[j] = << i, body[i] >>

\* C18: in a reprompt or resume turn the dialog state, the accepted options
\* and the frame stay as they are, the frame is active, and the event of
\* type event and name repromptDialog goes to the skill without a
\* connection name: exchange_token is not called.
C18_RepromptKeepsSession ==
    [][ handler' \in {"reprompt_dialog", "resume_dialog"}
          => /\ state' = state
             /\ dialog_args' = dialog_args
             /\ frame' = "Active"
             /\ frame = "Active"
             /\ skill_activity'.type = "event"
             /\ skill_activity'.name = "repromptDialog"
             /\ connection_name' = None
             /\ \A i \in DOMAIN calls' : calls'[i].op # "exchange_token" ]_vars

\* a resume turn of a dialog begun with expectReplies and a connection name
C18_Witness ==
    /\ pc = "done"
    /\ handler = "resume_dialog"
    /\ outcome = "end_of_turn"
    /\ state.deliverymode = "expectReplies"
    /\ state.sso_connection_name = "sso"
    /\ frame = "Active"

\* C19: the reprompt event and the end-of-conversation of end_dialog have no
\* delivery mode: whatever the stored delivery mode and the body of the
\* response, their turn processes no reply, sends nothing to the user and
\* captures no end-of-conversation, and a reprompt or resume turn leaves the
\* dialog active.
C19_SynthesizedActivitiesExpectNoReplies ==
    caller \in {"reprompt_dialog", "end_dialog"} =>
        /\ skill_activity.delivery_mode = None
        /\ replies = <<>>
        /\ idx = 0
        /\ eoc_activity = NoActivity
        /\ handler \in {"reprompt_dialog", "resume_dialog", "end_dialog"} => sent = <<>>
        /\ handler \in {"reprompt_dialog", "resume_dialog"}
              => /\ frame = "Active"
                 /\ outcome # "ended"
                 /\ result = None

\* a reprompt of a dialog begun with expectReplies was answered with a
\* batch that holds an end-of-conversation, and the dialog is still active
C19_Witness ==
    /\ pc = "done"
    /\ handler = "reprompt_dialog"
    /\ state.deliverymode = "expectReplies"
    /\ response.status = 200
    /\ \E i \in DOMAIN response.body : response.body[i].type = "endOfConversation"
    /\ outcome = "returned"
    /\ frame = "Active"

\* C20: an end_dialog turn reaches Dialog.end_dialog exactly when the reason
\* is EndCalled or the end-of-conversation was answered with a status in
\* 200..299; for CancelCalled or ReplaceCalled and another status it raises
\* the invocation error instead.
C20_TeardownOnlyAfterSuccess ==
    (pc = "done" /\ handler = "end_dialog") =>
        LET torn == \E i \in DOMAIN calls : calls[i].op = "base_end_dialog"
            ok == 200 <= response.status /\ response.status <= 299
        IN  /\ torn <=> (reason = "EndCalled" \/ ok)
            /\ (reason \in {"CancelCalled", "ReplaceCalled"} /\ ~ok)
                  => raised = "Exception" /\ outcome = "raised"
            /\ torn => raised = None /\ outcome = "returned"

\* a replaced dialog whose end-of-conversation was answered with 199
C20_Witness ==
    /\ pc = "done"
    /\ handler = "end_dialog"
    /\ reason = "ReplaceCalled"
    /\ response.status = 199
    /\ raised = "Exception"
    /\ \A i \in DOMAIN calls : calls[i].op # "base_end_dialog"

====
